---- MODULE Spec2Model ----
(***************************************************************************)
(* Model of nope.py: the command authorization gateway.                    *)
(*                                                                         *)
(* A command string is a sequence of symbols: the blank SP, the double     *)
(* quote DQ, and words (runs of ordinary characters).  The two             *)
(* tokenizers of the program, shlex.split (execute_command) and str.split  *)
(* (api_execute_command), are computed over that sequence.  A token is a   *)
(* sequence of symbols as well, so that 'ln -s' is <<"ln", SP, "-s">>.     *)
(***************************************************************************)
EXTENDS Integers, Sequences, FiniteSets, TLC

SP == " "
DQ == "\""

\* Python's None for Optional[bool]; booleans are "True" / "False".
None == "None"

(***************************************************************************)
(* Bounds and input vocabulary                                             *)
(***************************************************************************)
MaxArgs == 2

\* First chunk of a command line as typed: bare, quoted, quoted with a
\* blank inside, and with a quote left open.
BaseChunks ==
  { <<"rm">>, <<DQ, "rm", DQ>>, <<DQ, "rm">>,
    <<"curl">>, <<DQ, "curl", DQ>>,
    <<"ssh">>, <<"pip">>, <<"npm">>, <<DQ, "npm", DQ>>, <<"docker">>,
    <<"git">>, <<"echo">>, <<"ln">>, <<DQ, "ln", SP, "-s", DQ>> }

ArgChunks ==
  { <<"install">>, <<"push">>, <<"--trusted-host", "=pypi.org">>, <<"-g">>,
    <<"run">>, <<"github.com">>, <<"origin">>, <<"-s">> }

RECURSIVE ArgTails(_)
ArgTails(n) ==
  IF n = 0 THEN { <<>> }
  ELSE LET shorter == ArgTails(n - 1)
       IN  shorter \cup { t \o <<SP>> \o a : t \in shorter, a \in ArgChunks }

\* The command strings submitted: nothing, blanks only, and a base chunk
\* followed by up to MaxArgs blank-separated argument chunks.
Commands ==
  { <<>>, <<SP>> } \cup { b \o t : b \in BaseChunks, t \in ArgTails(MaxArgs) }

(***************************************************************************)
(* Tokenizers                                                              *)
(***************************************************************************)
\* shlex.split(command): POSIX mode, whitespace_split.  A quote opens or
\* closes a quoted run (blanks inside belong to the token, the quote
\* characters do not); a quote still open at the end raises ValueError.
RECURSIVE shlex_scan(_, _, _, _, _)
shlex_scan(s, i, state, token, out) ==
  IF i > Len(s)
  THEN IF state = "quote" THEN [ok |-> FALSE, parts |-> <<>>]
       ELSE IF state = "word" THEN [ok |-> TRUE, parts |-> Append(out, token)]
       ELSE [ok |-> TRUE, parts |-> out]
  ELSE LET c == s[i] IN
       IF state = "space"
       THEN IF c = SP THEN shlex_scan(s, i + 1, "space", <<>>, out)
            ELSE IF c = DQ THEN shlex_scan(s, i + 1, "quote", <<>>, out)
            ELSE shlex_scan(s, i + 1, "word", <<c>>, out)
       ELSE IF state = "quote"
       THEN IF c = DQ THEN shlex_scan(s, i + 1, "word", token, out)
            ELSE shlex_scan(s, i + 1, "quote", Append(token, c), out)
       ELSE IF c = SP THEN shlex_scan(s, i + 1, "space", <<>>, Append(out, token))
            ELSE IF c = DQ THEN shlex_scan(s, i + 1, "quote", token, out)
            ELSE shlex_scan(s, i + 1, "word", Append(token, c), out)

shlex_split(s) == shlex_scan(s, 1, "space", <<>>, <<>>)

\* command.split(): cut at runs of blanks, nothing else is interpreted.
RECURSIVE str_scan(_, _, _, _)
str_scan(s, i, token, out) ==
  IF i > Len(s)
  THEN IF token = <<>> THEN out ELSE Append(out, token)
  ELSE IF s[i] = SP
       THEN str_scan(s, i + 1, <<>>, IF token = <<>> THEN out ELSE Append(out, token))
       ELSE str_scan(s, i + 1, Append(token, s[i]), out)

str_split(s) == str_scan(s, 1, <<>>, <<>>)

\* user_input.strip(): leading and trailing blanks removed.
RECURSIVE lstrip(_)
lstrip(s) == IF s # <<>> /\ Head(s) = SP THEN lstrip(Tail(s)) ELSE s

RECURSIVE rstrip(_)
rstrip(s) ==
  IF s # <<>> /\ s[Len(s)] = SP THEN rstrip(SubSeq(s, 1, Len(s) - 1)) ELSE s

strip(s) == rstrip(lstrip(s))

\* arg.startswith(prefix)
startswith(tok, prefix) ==
  Len(tok) >= Len(prefix) /\ SubSeq(tok, 1, Len(prefix)) = prefix

\* x in args
Contains(args, tok) == \E k \in 1..Len(args) : args[k] = tok

(***************************************************************************)
(* Policy table                                                            *)
(***************************************************************************)
Word(w) == <<w>>

nope_commands ==
  { Word(w) : w \in
    { "rm", "chmod", "chown", "chgrp", "mkfs", "mount", "umount", "dd",
      "shutdown", "reboot", "poweroff", "init", "systemctl", "journalctl",
      "user", "passwd", "sudo", "su",
      "kill", "dmesg", "lsmod", "modprobe", "insmod", "rmmod",
      "iptables", "firewalld", "ufw", "nc",
      "crontab", "at", "swapon", "swapoff",
      "lsusb", "lspci", "lsblk",
      "history" } }

confirm_commands ==
  { Word(w) : w \in
    { "curl", "wget",
      "pip", "pip3", "npm", "yarn", "apt-get", "apt", "yum", "dnf", "pacman", "brew",
      "sysctl", "ulimit", "update-alternatives", "locale-gen",
      "nvm", "rbenv", "pyenv", "sdk", "snap",
      "ssh", "scp", "ftp", "sftp", "rsync",
      "docker", "docker-compose", "podman", "kubectl", "minikube",
      "service", "launchctl",
      "fdisk", "mkfs.ext4", "mkfs.ntfs", "resize2fs", "e2fsck", "fsck",
      "qemu", "kvm",
      "loginctl", "useradd", "usermod", "groupadd", "groupmod",
      "netstat", "ss", "tcpdump", "nmap",
      "mv", "cp",
      "export", "source",
      "top", "ps", "df", "du",
      "alias", "reset", "stty" } }
  \cup { <<"ln", SP, "-s">> }

\* "subcommand": None is the empty token, which is falsy like None.
NoSub == <<>>

secondary_filters ==
  << [command |-> Word("pip"),    subcommand |-> Word("install"), message |-> "pip"],
     [command |-> Word("npm"),    subcommand |-> Word("install"), message |-> "npm"],
     [command |-> Word("docker"), subcommand |-> NoSub,           message |-> "docker"],
     [command |-> Word("ssh"),    subcommand |-> NoSub,           message |-> "ssh"],
     [command |-> Word("git"),    subcommand |-> Word("push"),    message |-> "git"] >>

(***************************************************************************)
(* State                                                                   *)
(***************************************************************************)
\* Handler threads: the CLI main loop or the first request handler is
\* "r1"; "r2" is a second request handler running concurrently.
Requests == { "r1", "r2" }

VARIABLES
  surface,      \* "cli" (--cli) or "api" (--api)
  sys_prefix,   \* sys.prefix of the interpreter (sys.base_prefix is "/usr")
  ls_result,    \* what subprocess.check_output(['ls']) does in the cwd
  th            \* per handler: the locals of the running call and its record

vars == << surface, sys_prefix, ls_result, th >>

sys_base_prefix == "/usr"

Prefixes == { "/usr", "/venv" }

LsResults ==
  { [ok |-> FALSE, files |-> {}],
    [ok |-> TRUE,  files |-> { "README.md" }],
    [ok |-> TRUE,  files |-> { "README.md", "package.json" }] }

(***************************************************************************)
(* Helper functions (predicate library)                                    *)
(***************************************************************************)
is_within_virtualenv == sys_base_prefix # sys_prefix

required_files == { "requirements.txt", "package.json", "Pipfile", "pyproject.toml" }

\* "Raise" when check_output(['ls']) fails (non-zero exit, ls not found).
is_within_project_directory ==
  IF ~ls_result.ok THEN "Raise"
  ELSE IF \E file \in required_files : file \in ls_result.files THEN "True"
  ELSE "False"

trusted_hosts == { Word("github.com"), Word("gitlab.com"), Word("bitbucket.org") }

is_trusted_host(host) == host \in trusted_hosts

allowed_remotes == { Word("origin"), Word("upstream") }

is_allowed_remote(remote) == remote \in allowed_remotes

Bool(b) == IF b THEN "True" ELSE "False"

\* filter["condition"](args) of filter number i: "True", "False" or "Raise".
condition(i, args) ==
  CASE i = 1 ->
         Bool((\E k \in 1..Len(args) : startswith(args[k], Word("--trusted-host")))
              \/ is_within_virtualenv)
    [] i = 2 ->
         IF Contains(args, Word("-g")) THEN "False"
         ELSE is_within_project_directory
    [] i = 3 ->
         Bool(Contains(args, Word("run")) \/ Contains(args, Word("build")))
    [] i = 4 ->
         IF args # <<>> THEN Bool(is_trusted_host(args[Len(args)])) ELSE "False"
    [] i = 5 ->
         IF args # <<>> THEN Bool(is_allowed_remote(args[Len(args)])) ELSE "False"

(***************************************************************************)
(* execute_command                                                         *)
(***************************************************************************)
\* What a run of the function body reaches next: a blocking prompt, the
\* subprocess.run call, a return with a message, or an exception (outcome
\* is then the name of the exception).
Reached(pc, outcome, uc, idx, msg, fired) ==
  [pc |-> pc, outcome |-> outcome, user_confirm |-> uc, idx |-> idx,
   prompt_msg |-> msg, fired |-> fired]

\* The subcommand test of the filter loop: TRUE when the filter is skipped.
subcommand_skips(subcmd, args) ==
  subcmd # NoSub /\ Len(args) > 0 /\ args[1] # subcmd

\* The filter loop, from filter i on, with the current user_confirm.
\* As exec_filters, asking at every filter that fires although an approval
\* has been given.
RECURSIVE exec_filters_reprompting(_, _, _, _)
exec_filters_reprompting(i, uc, parts, fired) ==
  IF i > Len(secondary_filters)
  THEN Reached("run", "none", uc, i, {}, fired)
  ELSE LET f    == secondary_filters[i]
           args == Tail(parts)
       IN  IF f.command # parts[1]
           THEN exec_filters_reprompting(i + 1, uc, parts, fired)
           ELSE IF subcommand_skips(f.subcommand, args)
           THEN exec_filters_reprompting(i + 1, uc, parts, fired)
           ELSE LET c == condition(i, args) IN
                IF c = "Raise" THEN Reached("raise", "CalledProcessError", uc, i, {}, fired)
                ELSE IF c = "False"
                THEN exec_filters_reprompting(i + 1, uc, parts, fired)
                ELSE IF uc = "False"
                THEN Reached("return", "cancelled", uc, i, {}, fired \cup { i })
                ELSE Reached("prompt", "none", uc, i, { f.message }, fired \cup { i })

RECURSIVE exec_filters(_, _, _, _)
exec_filters(i, uc, parts, fired) ==
  IF i > Len(secondary_filters)
  THEN Reached("run", "none", uc, i, {}, fired)
  ELSE LET f    == secondary_filters[i]
           args == Tail(parts)
       IN  IF f.command # parts[1] THEN exec_filters(i + 1, uc, parts, fired)
           ELSE IF subcommand_skips(f.subcommand, args)
           THEN exec_filters(i + 1, uc, parts, fired)
           ELSE LET c == condition(i, args) IN
                IF c = "Raise" THEN Reached("raise", "CalledProcessError", uc, i, {}, fired)
                ELSE IF c = "False" THEN exec_filters(i + 1, uc, parts, fired)
                ELSE IF uc = None
                THEN Reached("prompt", "none", uc, i, { f.message }, fired \cup { i })
                ELSE IF uc = "False"
                THEN Reached("return", "cancelled", uc, i, {}, fired \cup { i })
                ELSE exec_filters(i + 1, uc, parts, fired \cup { i })

\* As on_confirm_list, but leaving the decision to the filter when the
\* command has one.
confirm_list_unless_filtered(base_command) ==
  /\ base_command \in confirm_commands
  /\ \A i \in 1..Len(secondary_filters) : secondary_filters[i].command # base_command

\* As on_confirm_list, with a prefix match in place of equality.
confirm_list_by_prefix(base_command) ==
  \E cmd \in confirm_commands : startswith(cmd, base_command)

\* As on_confirm_list, comparing the first word of an entry only.
confirm_list_first_word(base_command) ==
  \E cmd \in confirm_commands :
    base_command # <<>> /\ cmd[1] = base_command[1]

\* The confirm-list test of execute_command.
on_confirm_list(base_command) == base_command \in confirm_commands

\* As on_nope_list, with the deny test left out.
nope_check_skipped(base_command) == FALSE

\* The deny test of execute_command.
on_nope_list(base_command) == base_command \in nope_commands

\* execute_command(command, user_confirm) from its first line.
exec_enter(command, uc) ==
  LET sp == shlex_split(command) IN
  IF ~sp.ok THEN Reached("raise", "ValueError", uc, 0, {}, {})
  ELSE IF sp.parts = <<>> THEN Reached("return", "no_command", uc, 0, {}, {})
  ELSE LET base_command == sp.parts[1] IN
       IF on_nope_list(base_command)
       THEN Reached("return", "restricted", uc, 0, {}, {})
       ELSE IF on_confirm_list(base_command)
       THEN IF uc = None
            THEN Reached("prompt", "none", uc, 0, { "generic" }, {})
            ELSE IF uc = "False"
            THEN Reached("return", "cancelled", uc, 0, {}, {})
            ELSE exec_filters(1, uc, sp.parts, {})
       ELSE exec_filters(1, uc, sp.parts, {})

\* As exec_resume, without the "if not user_confirm: return" after confirm().
exec_resume_unchecked(idx, answer, parts, fired) ==
  exec_filters(idx + 1, answer, parts, fired)

\* After confirm() has returned answer at the prompt of position idx
\* (0: the confirm list, i: filter i).
exec_resume(idx, answer, parts, fired) ==
  IF answer = "False" THEN Reached("return", "cancelled", answer, idx, {}, fired)
  ELSE exec_filters(idx + 1, answer, parts, fired)

\* confirm(): the value returned for a response, "Again" when it loops.
confirm_response(response) ==
  LET lowered == IF response = "Y" THEN "y"
                 ELSE IF response = "YES" THEN "yes"
                 ELSE IF response = "N" THEN "n"
                 ELSE IF response = "No" THEN "no"
                 ELSE response
  IN  IF lowered \in { "y", "yes" } THEN "True"
      ELSE IF lowered \in { "n", "no" } THEN "False"
      ELSE "Again"

Responses == { "y", "yes", "Y", "n", "no", "No", "maybe", "" }

\* What subprocess.run(parts, check=True) can end with.
RunResults == { "success", "failed", "not_found", "unexpected" }

(***************************************************************************)
(* api_execute_command                                                     *)
(***************************************************************************)
\* The filter loop of the endpoint: "call" when it falls through to
\* execute_command.
RECURSIVE api_filters(_, _, _, _)
api_filters(i, toks, uc, fired) ==
  IF i > Len(secondary_filters) THEN [kind |-> "call", fired |-> fired, error |-> "none"]
  ELSE IF secondary_filters[i].command # toks[1]
  THEN api_filters(i + 1, toks, uc, fired)
  ELSE LET c == condition(i, Tail(toks)) IN
       IF c = "Raise"
       THEN [kind |-> "raise", fired |-> fired, error |-> "CalledProcessError"]
       ELSE IF c = "False" THEN api_filters(i + 1, toks, uc, fired)
       ELSE IF uc = None
       THEN [kind |-> "http400", fired |-> fired \cup { i }, error |-> "none"]
       ELSE IF uc = "False"
       THEN [kind |-> "cancelled", fired |-> fired \cup { i }, error |-> "none"]
       ELSE api_filters(i + 1, toks, uc, fired \cup { i })

\* Lines 255-275: the endpoint's own checks before execute_command.
api_check(command, uc) ==
  LET toks == str_split(command) IN
  IF toks = <<>> THEN [kind |-> "raise", fired |-> {}, error |-> "IndexError"]
  ELSE IF \E cmd \in nope_commands : cmd = toks[1]
  THEN [kind |-> "blocked", fired |-> {}, error |-> "none"]
  ELSE IF (\E cmd \in confirm_commands : cmd = toks[1]) /\ uc = None
  THEN [kind |-> "http400", fired |-> {}, error |-> "none"]
  ELSE IF (\E cmd \in confirm_commands : cmd = toks[1]) /\ uc = "False"
  THEN [kind |-> "cancelled", fired |-> {}, error |-> "none"]
  ELSE api_filters(1, toks, uc, {})

\* The first character of each result message of execute_command.
message_mark(outcome) ==
  IF outcome = "success" THEN "check"
  ELSE IF outcome = "cancelled" THEN "pause"
  ELSE "cross"

\* Lines 279-284: the status of the response for a result message.
api_status(outcome) ==
  IF message_mark(outcome) = "check" THEN "success"
  ELSE IF message_mark(outcome) = "pause" THEN "cancelled"
  ELSE "error"

(***************************************************************************)
(* cli_interface                                                           *)
(***************************************************************************)
\* str.lower() on the words the input lines are made of.
lower_word(w) ==
  IF w \in { "EXIT", "Exit" } THEN "exit"
  ELSE IF w \in { "QUIT", "Quit" } THEN "quit"
  ELSE w

lower(s) == [k \in 1..Len(s) |-> lower_word(s[k])]

\* As is_exit_sentinel, without the lower().
is_exit_sentinel_case_sensitive(user_input) ==
  user_input \in { Word("exit"), Word("quit") }

\* user_input.lower() in ['exit', 'quit']
is_exit_sentinel(user_input) == lower(user_input) \in { Word("exit"), Word("quit") }

\* Lines typed at "Enter command: ".
Lines ==
  Commands \cup { <<"exit">>, <<"EXIT">>, <<SP, "Quit", SP>>, <<"exit", SP, "install">> }

\* As cli_confirm_arg, with the decision of the previous call carried over.
cli_confirm_arg_reused(previous) == previous

\* The user_confirm that cli_interface hands to execute_command: the call
\* execute_command(user_input) leaves the parameter at its default, whatever
\* the previous call ended with.
cli_confirm_arg(previous) == None

(***************************************************************************)
(* Handler records                                                         *)
(***************************************************************************)
IdleRec ==
  [pc           |-> "idle",   \* "idle", "prompt", "run", "done", "exited"
   command      |-> <<>>,     \* the command string of the submission
   confirm      |-> None,     \* request.confirm / the argument passed in
   user_confirm |-> None,     \* the local user_confirm of execute_command
   parts        |-> <<>>,     \* shlex.split(command)
   idx          |-> 0,        \* where the prompt was raised: 0 list, i filter i
   prompt_msg   |-> {},       \* rationales in the text of the current prompt
   prompts      |-> <<>>,     \* texts of the confirm() calls of this submission
   fired        |-> {},       \* filters whose condition held in execute_command
   api_fired    |-> {},       \* filters whose condition held in the endpoint
   spawned      |-> 0,        \* subprocess.run calls of this submission
   outcome      |-> "none",   \* how the submission ended
   status       |-> "none",   \* status of the HTTP response
   error        |-> "none",   \* the exception that ended the submission
   exit_reason  |-> "none",   \* why the CLI loop was left
   prev_confirm |-> None]     \* user_confirm left behind by the previous call

\* A new submission: fresh locals; only prev_confirm remembers the last one.
Fresh(r, command, confirm) ==
  [IdleRec EXCEPT !.command = command,
                  !.confirm = confirm,
                  !.user_confirm = confirm,
                  !.parts = shlex_split(command).parts,
                  !.prev_confirm = r.prev_confirm]

\* The record after execute_command has run up to e.
Settle(r, e) ==
  [r EXCEPT !.pc = IF e.pc \in { "prompt", "run" } THEN e.pc ELSE "done",
            !.user_confirm = e.user_confirm,
            !.idx = e.idx,
            !.prompt_msg = e.prompt_msg,
            !.prompts = IF e.pc = "prompt" THEN Append(@, e.prompt_msg) ELSE @,
            !.fired = e.fired,
            !.outcome = IF e.pc = "return" THEN e.outcome
                        ELSE IF e.pc = "raise" THEN "raised"
                        ELSE "none",
            !.error = IF e.pc = "raise" THEN e.outcome ELSE "none",
            !.status = IF surface # "api" THEN "none"
                       ELSE IF e.pc = "return" THEN api_status(e.outcome)
                       ELSE IF e.pc = "raise" THEN "http500"
                       ELSE "none"]

\* The record after the endpoint has answered without calling execute_command.
Answered(r, kind) ==
  [r EXCEPT !.pc = "done",
            !.outcome = CASE kind = "blocked"   -> "restricted"
                          [] kind = "http400"   -> "confirmation_required"
                          [] kind = "cancelled" -> "cancelled"
                          [] kind = "raise"     -> "raised",
            !.status  = CASE kind = "blocked"   -> "blocked"
                          [] kind = "http400"   -> "http400"
                          [] kind = "cancelled" -> "cancelled"
                          [] kind = "raise"     -> "http500"]

(***************************************************************************)
(* Actions                                                                 *)
(***************************************************************************)
Init ==
  /\ surface \in { "cli", "api" }
  /\ sys_prefix \in Prefixes
  /\ ls_result \in LsResults
  /\ th = [t \in Requests |-> IdleRec]

\* One turn of the loop of cli_interface, up to the first prompt of
\* execute_command, its subprocess.run call, or its return.
CliInput(t) ==
  /\ surface = "cli"
  /\ th[t].pc = "idle"
  /\ \E line \in Lines :
       LET user_input == strip(line) IN
       IF is_exit_sentinel(user_input)
       THEN th' = [th EXCEPT ![t].pc = "exited",
                             ![t].command = user_input,
                             ![t].exit_reason = "sentinel"]
       ELSE IF user_input = <<>>
       THEN th' = th
       ELSE LET uc == cli_confirm_arg(th[t].prev_confirm) IN
            th' = [th EXCEPT ![t] = Settle(Fresh(th[t], user_input, uc),
                                          exec_enter(user_input, uc))]
  /\ UNCHANGED << surface, sys_prefix, ls_result >>

\* KeyboardInterrupt at either input() of the CLI or during subprocess.run:
\* no handler of execute_command catches it, the loop's handler breaks.
CliInterrupt(t) ==
  /\ surface = "cli"
  /\ th[t].pc \in { "idle", "prompt", "run" }
  /\ th' = [th EXCEPT ![t].pc = "exited",
                      ![t].exit_reason = "interrupt",
                      ![t].spawned = IF th[t].pc = "run" THEN @ + 1 ELSE @,
                      ![t].outcome = IF th[t].pc = "idle" THEN @ ELSE "interrupted"]
  /\ UNCHANGED << surface, sys_prefix, ls_result >>

\* One response typed at the prompt of confirm(), and execute_command from
\* there to its next prompt, its subprocess.run call, or its return.
ConfirmInput(t) ==
  /\ th[t].pc = "prompt"
  /\ \E response \in Responses :
       LET answer == confirm_response(response) IN
       IF answer = "Again"
       THEN th' = th
       ELSE th' = [th EXCEPT ![t] = Settle(th[t],
                      exec_resume(th[t].idx, answer, th[t].parts, th[t].fired))]
  /\ UNCHANGED << surface, sys_prefix, ls_result >>

\* input() of confirm() finds standard input closed: EOFError.
ConfirmEOF(t) ==
  /\ th[t].pc = "prompt"
  /\ th' = [th EXCEPT ![t] = Settle(th[t],
               Reached("raise", "EOFError", th[t].user_confirm, th[t].idx, {}, th[t].fired))]
  /\ UNCHANGED << surface, sys_prefix, ls_result >>

\* As Spawn, running the command again when it has failed.
Spawn_retrying(t) ==
  /\ th[t].pc = "run"
  /\ \E result \in RunResults :
       th' = [th EXCEPT ![t].pc = IF result = "failed" THEN "run" ELSE "done",
                        ![t].spawned = @ + 1,
                        ![t].outcome = IF result = "failed" THEN "none" ELSE result,
                        ![t].status = IF surface = "api" /\ result # "failed"
                                      THEN api_status(result) ELSE "none"]
  /\ UNCHANGED << surface, sys_prefix, ls_result >>

\* subprocess.run(parts, ...) and the return of execute_command.
Spawn(t) ==
  /\ th[t].pc = "run"
  /\ \E result \in RunResults :
       th' = [th EXCEPT ![t].pc = "done",
                        ![t].spawned = @ + 1,
                        ![t].outcome = result,
                        ![t].status = IF surface = "api" THEN api_status(result) ELSE "none"]
  /\ UNCHANGED << surface, sys_prefix, ls_result >>

\* POST /execute: the endpoint's checks and, when they pass, the call of
\* execute_command up to its first prompt, subprocess.run, or return.
ApiRequest(t, commands) ==
  /\ surface = "api"
  /\ th[t].pc = "idle"
  /\ \E command \in commands, confirm \in { None, "True", "False" } :
       LET a  == api_check(command, confirm)
           r0 == [Fresh(th[t], command, confirm) EXCEPT !.api_fired = a.fired,
                                                         !.error = a.error]
       IN  th' = [th EXCEPT ![t] =
                    IF a.kind = "call"
                    THEN Settle(r0, exec_enter(command, confirm))
                    ELSE Answered(r0, a.kind)]
  /\ UNCHANGED << surface, sys_prefix, ls_result >>

\* The result is printed (CLI) or the response sent (API); the locals of
\* the call are gone and the handler waits for the next submission.
Finish(t) ==
  /\ th[t].pc = "done"
  /\ th' = [th EXCEPT ![t] = [IdleRec EXCEPT !.prev_confirm = th[t].user_confirm]]
  /\ UNCHANGED << surface, sys_prefix, ls_result >>

Main == "r1"

Next ==
  \/ CliInput(Main)
  \/ CliInterrupt(Main)
  \/ ConfirmInput(Main)
  \/ ConfirmEOF(Main)
  \/ Spawn(Main)
  \/ Finish(Main)
  \/ ApiRequest(Main, Commands)

Spec == Init /\ [][Next]_vars

(***************************************************************************)
(* Two requests handled concurrently                                       *)
(***************************************************************************)
ConcCommands ==
  { <<"curl">>, <<DQ, "curl", DQ>>, <<"rm">>, <<"echo">>,
    <<"git", SP, "push", SP, "origin">>, <<"git", SP, "install", SP, "origin">>,
    <<"ssh", SP, "github.com">> }

InitConc ==
  /\ surface = "api"
  /\ sys_prefix \in Prefixes
  /\ ls_result \in LsResults
  /\ th = [t \in Requests |-> IdleRec]

NextConc ==
  \E t \in Requests :
    \/ ApiRequest(t, ConcCommands)
    \/ ConfirmInput(t)
    \/ ConfirmEOF(t)
    \/ Spawn(t)

SpecConc == InitConc /\ [][NextConc]_vars

(***************************************************************************)
(* Vocabulary of the properties                                            *)
(***************************************************************************)
\* The handler holds a submission whose command tokenizes to at least one
\* token; Base is then token[0] and Args the argument tail.
HasBase(r) == r.pc # "idle" /\ shlex_split(r.command).ok /\ r.parts # <<>>
Base(r) == r.parts[1]
Args(r) == Tail(r.parts)

FilterCommands == { secondary_filters[i].command : i \in 1..Len(secondary_filters) }

\* Filter i fires on the tokens as the design states it: base command
\* equal, required subcommand absent or equal to token[1], predicate true.
FilterFires(i, parts) ==
  /\ secondary_filters[i].command = parts[1]
  /\ \/ secondary_filters[i].subcommand = NoSub
     \/ Len(parts) >= 2 /\ parts[2] = secondary_filters[i].subcommand
  /\ condition(i, Tail(parts)) = "True"

\* The rationales that apply to the tokens.
Rationales(parts) ==
  (IF parts[1] \in confirm_commands THEN { "generic" } ELSE {})
  \cup { secondary_filters[i].message :
           i \in { k \in 1..Len(secondary_filters) : FilterFires(k, parts) } }

\* The executor has been called, or is being called, for the submission.
Executed(r) == r.pc = "run" \/ r.spawned > 0

(***************************************************************************)
(* Properties                                                              *)
(***************************************************************************)
\* C1: a submission whose token[0] is in the deny set ends Denied on either
\* surface: subprocess.run is never reached and confirm() is never called,
\* whatever the arguments, the confirm field and the predicates.
C1_DenyPrecedence ==
  \A t \in Requests :
    LET r == th[t] IN
    (HasBase(r) /\ Base(r) \in nope_commands) =>
      /\ ~Executed(r)
      /\ r.prompts = <<>>
      /\ r.pc = "done"
      /\ r.outcome = "restricted"

\* A quoted deny name with confirm true, refused by execute_command itself.
C1_Witness ==
  \E t \in Requests :
    /\ surface = "api" /\ th[t].pc = "done" /\ th[t].confirm = "True"
    /\ HasBase(th[t])
    /\ th[t].command[1] = DQ /\ Len(th[t].parts) >= 2
    /\ Base(th[t]) \in nope_commands /\ th[t].outcome = "restricted"

\* C2: subprocess.run is reached only on a final Allow: token[0] is not
\* denied, and either no rationale applied or the decision is Approved; a
\* Denied, Cancelled or confirmation-required submission never spawned.
C2_ExecutorOnlyOnAllow ==
  \A t \in Requests :
    LET r == th[t] IN
    /\ Executed(r) =>
         /\ HasBase(r)
         /\ Base(r) \notin nope_commands
         /\ \/ /\ Base(r) \notin confirm_commands
               /\ r.fired = {} /\ r.api_fired = {}
               /\ Rationales(r.parts) = {}
            \/ r.user_confirm = "True"
    /\ r.outcome \in { "restricted", "cancelled", "confirmation_required" }
         => r.spawned = 0

\* Spawned after an approval solicited at the prompt.
C2_Witness ==
  \E t \in Requests :
    /\ th[t].spawned = 1 /\ th[t].prompts # <<>> /\ th[t].user_confirm = "True"
    /\ HasBase(th[t])
    /\ Base(th[t]) \in confirm_commands

\* C3: on the API, confirm absent and a decision required (token[0] on the
\* confirm list or a filter fires): the request ends with the
\* ConfirmationRequired error and nothing is executed.
C3_ConfirmationRequired ==
  \A t \in Requests :
    LET r == th[t] IN
    (surface = "api" /\ r.confirm = None /\ HasBase(r)
       /\ Base(r) \notin nope_commands /\ Rationales(r.parts) # {}) =>
      /\ r.pc = "done"
      /\ r.status = "http400"
      /\ r.spawned = 0

\* C4: a supplied decision is honoured without asking: no prompt; with a
\* rationale, Approved executes and Rejected cancels without executing;
\* without any rationale the command is executed whatever the decision.
\* (Submissions ending in an uncaught exception are left aside.)
C4_SuppliedDecision ==
  \A t \in Requests :
    LET r == th[t] IN
    (r.confirm # None /\ HasBase(r) /\ Base(r) \notin nope_commands
       /\ r.outcome # "raised") =>
      /\ r.prompts = <<>>
      /\ r.pc \in { "run", "done" }
      /\ r.pc = "done" =>
           IF Rationales(r.parts) = {} \/ r.confirm = "True"
           THEN r.spawned = 1
           ELSE r.spawned = 0 /\ r.outcome = "cancelled"

\* C5: on the CLI a command whose token[0] is on the confirm list is always
\* put to confirm() first, also when no filter fires for it, and
\* subprocess.run is reached only after that prompt was answered yes.
C5_ConfirmTierAlwaysAsks ==
  \A t \in Requests :
    LET r == th[t] IN
    (surface = "cli" /\ HasBase(r) /\ Base(r) \in confirm_commands) =>
      /\ Len(r.prompts) >= 1
      /\ Executed(r) => r.user_confirm = "True"
      /\ r.pc = "done" /\ r.spawned = 0 => r.outcome \in { "cancelled", "raised" }

\* ssh to a host outside the trusted set: executed after the prompt.
C5_Witness ==
  \E t \in Requests :
    /\ surface = "cli" /\ th[t].spawned = 1
    /\ HasBase(th[t])
    /\ Base(th[t]) = Word("ssh") /\ Len(th[t].parts) >= 2
    /\ Rationales(th[t].parts) = { "generic" } /\ th[t].fired = {}
    /\ Len(th[t].prompts) = 1

C7_FiltersFireOnlyOnMatch ==
  \A t \in Requests :
    LET r == th[t]
        Matches(i, toks) ==
          /\ toks # <<>>
          /\ secondary_filters[i].command = toks[1]
          /\ \/ secondary_filters[i].subcommand = NoSub
             \/ Len(toks) >= 2 /\ toks[2] = secondary_filters[i].subcommand
    IN  /\ \A i \in r.fired : Matches(i, r.parts)
        /\ \A i \in r.api_fired : Matches(i, str_split(r.command))

\* C8: on the CLI the text of the first prompt of a submission carries the
\* rationale of every matching rule: the confirm-list one and each fired
\* filter's.
C8_AllRationalesPresented ==
  \A t \in Requests :
    LET r == th[t] IN
    (surface = "cli" /\ HasBase(r) /\ r.confirm = None /\ r.prompts # <<>>) =>
      Rationales(r.parts) \subseteq r.prompts[1]

\* C9: two requests handled concurrently that carry the same command and the
\* same confirm field end the same way (blocked, confirmation required,
\* cancelled, executed): the outcome depends on nothing but the request.
OutcomeClass(r) ==
  IF r.spawned > 0 THEN "executed"
  ELSE IF r.outcome = "restricted" THEN "blocked"
  ELSE r.outcome

OutcomeClasses == { "blocked", "confirmation_required", "cancelled", "executed" }

C9_RequestIsolation ==
  \A t, u \in Requests :
    (th[t].pc = "done" /\ th[u].pc = "done"
       /\ OutcomeClass(th[t]) \in OutcomeClasses
       /\ OutcomeClass(th[u]) \in OutcomeClasses
       /\ th[t].command = th[u].command /\ th[t].confirm = th[u].confirm) =>
      OutcomeClass(th[t]) = OutcomeClass(th[u])

\* C10: on the CLI every submission starts with the decision unset, whatever
\* the previous one ended with, and one that needs confirmation asks for
\* its own approval before subprocess.run.
C10_PerSubmissionDecision ==
  \A t \in Requests :
    LET r == th[t] IN
    (surface = "cli" /\ HasBase(r)) =>
      /\ r.confirm = None
      /\ (Base(r) \in confirm_commands \/ r.fired # {}) => Len(r.prompts) >= 1
      /\ (Executed(r) /\ Rationales(r.parts) # {}) =>
           Len(r.prompts) >= 1 /\ r.user_confirm = "True"

\* A later submission at its own prompt although the previous was approved.
C10_Witness ==
  \E t \in Requests :
    /\ surface = "cli" /\ th[t].pc = "prompt"
    /\ HasBase(th[t]) /\ Rationales(th[t].parts) # {}
    /\ th[t].prev_confirm = "True" /\ th[t].user_confirm = None

\* C11: a submission whose command has no token (empty or blanks only) is
\* answered with the "No command provided" result on either surface: it is
\* never classified, prompted for or run, and it raises nothing.
C11_EmptyCommandRejected ==
  \A t \in Requests :
    LET r == th[t] IN
    (r.pc \notin { "idle", "exited" }
       /\ shlex_split(r.command).ok /\ shlex_split(r.command).parts = <<>>) =>
      /\ r.pc = "done"
      /\ r.outcome = "no_command"
      /\ r.error = "none"
      /\ r.spawned = 0 /\ r.prompts = <<>>

\* C12: no submission ends with the exception of a filter predicate (the
\* failure of the `ls` of is_within_project_directory): a predicate that
\* cannot be evaluated counts as false.
C12_PredicatesFailClosed ==
  \A t \in Requests :
    LET r == th[t] IN
    r.error # "CalledProcessError"

\* C13: subprocess.run is called at most once for a submission: never for
\* one that was refused, cancelled or left without a decision, and exactly
\* once for one that reports the result of a run, a failed run included.
C13_NoRetries ==
  \A t \in Requests :
    LET r == th[t] IN
    /\ r.spawned <= 1
    /\ r.pc = "run" => r.spawned = 0
    /\ r.outcome \in { "restricted", "cancelled", "confirmation_required",
                       "no_command", "raised" } => r.spawned = 0
    /\ (r.pc = "done"
          /\ r.outcome \in { "success", "failed", "not_found", "unexpected" })
         => r.spawned = 1

\* A run that failed, reported after one call of subprocess.run.
C13_Witness ==
  \E t \in Requests :
    /\ th[t].pc = "done" /\ th[t].outcome = "failed" /\ th[t].spawned = 1
    /\ HasBase(th[t])

\* C14: two submissions with the same verdict (Denied, NeedsConfirmation,
\* Allowed, from the shlex tokens) and the same decision end in the same
\* terminal state (Denied, Allowed, Cancelled): the result depends on
\* nothing else.
Verdict(parts) ==
  IF parts[1] \in nope_commands THEN "Denied"
  ELSE IF Rationales(parts) # {} THEN "NeedsConfirmation"
  ELSE "Allowed"

TerminalState(r) ==
  IF r.outcome = "restricted" THEN "Denied"
  ELSE IF Executed(r) THEN "Allowed"
  ELSE IF r.outcome = "cancelled" THEN "Cancelled"
  ELSE "none"

C14_GateIdempotence ==
  \A t, u \in Requests :
    (HasBase(th[t]) /\ HasBase(th[u])
       /\ TerminalState(th[t]) # "none" /\ TerminalState(th[u]) # "none"
       /\ Verdict(th[t].parts) = Verdict(th[u].parts)
       /\ th[t].user_confirm = th[u].user_confirm) =>
      TerminalState(th[t]) = TerminalState(th[u])

\* C15: the CLI loop is left only by a line that is 'exit' or 'quit' in
\* any case, or by a keyboard interrupt; such a line is never submitted as
\* a command, and after every outcome (success, refusal, cancellation,
\* failure or error) and after an empty line the loop reads the next line.
C15_LoopUntilSentinel ==
  [][\A t \in Requests :
       LET r == th[t]
           n == th'[t] IN
       (surface = "cli" /\ n # r) =>
         /\ n.pc = "exited" =>
              /\ r.pc \in { "idle", "prompt", "run" }
              /\ \/ n.exit_reason = "interrupt"
                 \/ /\ n.exit_reason = "sentinel"
                    /\ r.pc = "idle"
                    /\ lower(strip(n.command)) \in { Word("exit"), Word("quit") }
         /\ (n.pc \notin { "idle", "exited" } /\ r.pc = "idle") =>
              /\ lower(strip(n.command)) \notin { Word("exit"), Word("quit") }
              /\ strip(n.command) # <<>>
         /\ r.pc = "done" => n.pc = "idle"
         /\ r.pc = "exited" => FALSE]_vars

\* The loop left by a sentinel written in capitals or between blanks.
C15_Witness ==
  \E t \in Requests :
    /\ surface = "cli" /\ th[t].pc = "exited"
    /\ th[t].exit_reason = "sentinel"
    /\ th[t].command \notin { Word("exit"), Word("quit") }
    /\ th[t].prev_confirm # None

\* C16: a request of the API never waits in confirm(): when the endpoint
\* calls execute_command with confirm absent, execute_command finds nothing
\* to confirm and asks nothing on the server's console.
C16_ApiNeverBlocks ==
  \A t \in Requests :
    surface = "api" => th[t].pc # "prompt" /\ th[t].prompts = <<>>

\* C17: on the CLI a submission asks for approval at most once: after a
\* yes no filter that fires later asks again, and after a no it is
\* cancelled at once, nothing run and no further filter evaluated.
C17_SingleApproval ==
  \A t \in Requests :
    LET r == th[t] IN
    (surface = "cli" /\ HasBase(r)) =>
      /\ Len(r.prompts) <= 1
      /\ r.user_confirm = "False" =>
           /\ r.pc = "done" /\ r.outcome = "cancelled" /\ r.spawned = 0
           /\ Len(r.prompts) = 1
           /\ r.prompts[1] = { "generic" } => r.fired = {}
      /\ (r.user_confirm = "True" /\ r.pc \in { "run", "done" }) =>
           Len(r.prompts) = 1

\* Approved once at the confirm-list prompt, then a filter fired and the
\* command ran with no second prompt.
C17_Witness ==
  \E t \in Requests :
    /\ surface = "cli" /\ HasBase(th[t])
    /\ th[t].prompts = << { "generic" } >>
    /\ th[t].fired # {} /\ th[t].user_confirm = "True" /\ th[t].spawned = 1

\* C18: a CLI submission that was asked for approval and got a recognised
\* answer ends executed or cancelled: y/yes (any case) approves and the
\* command is run, n/no (any case) rejects and the submission is cancelled;
\* any other response leaves it at the prompt without a decision.
C18_PromptEndsInOutcome ==
  \A t \in Requests :
    LET r == th[t] IN
    (surface = "cli" /\ HasBase(r) /\ r.prompts # <<>>) =>
      /\ r.pc = "prompt" => r.user_confirm = None
      /\ r.user_confirm = "True" => Executed(r)
      /\ r.user_confirm = "False" =>
           r.pc = "done" /\ r.outcome = "cancelled" /\ r.spawned = 0

C20_DenyAlwaysBlocked ==
  \A t \in Requests :
    LET r == th[t] IN
    (surface = "api" /\ r.pc = "done") =>
      /\ r.status \in { "success", "blocked", "cancelled", "error",
                        "http400", "http500" }
      /\ (HasBase(r) /\ Base(r) \in nope_commands) => r.status = "blocked"

====
